---- MODULE Spec2Model ----
(***************************************************************************)
(* Model of download_sensor_data.py: the SQLite-backed SensorDatabase      *)
(* (records table with UNIQUE(mac, seq), sync_state table), the packet     *)
(* parsers, and download_data with its notification_handler and poll       *)
(* loop, for one device (one mac).                                         *)
(*                                                                         *)
(* Abstractions.  A byte buffer is a record [len, b0, b1, b2, b3]: its     *)
(* length and its first four bytes, the only bytes whose value the code    *)
(* branches on; the payload bytes of a sensor record (offset >= 5) are not *)
(* modelled, so a decoded record carries only its seq.  Wall-clock values  *)
(* (imported_at_ms, last_sync_time, timestamp_ms) are replaced by the      *)
(* number of the run.  The event-loop clock is counted in whole seconds    *)
(* and observed only while the poll loop runs.  Each run of main() is a    *)
(* fresh process: the module globals start empty and the database file is  *)
(* what persists between runs.  client.is_connected is taken to be true    *)
(* when main's finally block runs.                                         *)
(*                                                                         *)
(* Spec is the whole script run repeatedly; SpecHandler is a run up to the *)
(* poll loop with any frames delivered; SpecPoll is a run until the poll   *)
(* loop is left, under the loop's own progress; SpecDb is SensorDatabase   *)
(* called directly.                                                        *)
(***************************************************************************)
EXTENDS Integers, Sequences, FiniteSets, TLC

\* ---------------------------------------------------------------- bounds
MaxSessions == 2      \* runs of main() against the device
MaxFrames == 2        \* notifications delivered in one run
MaxCount == 1         \* largest record_count byte (data[3]) of a frame
MaxFrameLen == 11     \* longest notification frame (5 + 6 * MaxCount)
MaxTotal == 2         \* largest device-reported total (low status byte)
MaxDbCalls == 3       \* database calls in the database-level specification
MaxBatch == 2         \* longest batch handed to insert_records directly
MaxSeqArg == 1        \* largest seq handed to the database directly

\* ------------------------------------------------------ program constants
PACKET_TYPE_HEADER == 0
PACKET_TYPE_DATA == 1
PACKET_TYPE_END == 2
timeout == 20
idle_timeout == 3

VARIABLES
  pc,                  \* position of main()/download_data
  session,             \* number of the current run of main()
  records,             \* table records: sequence of rows, row id = position
  sync_state,          \* table sync_state: the device's row, or absent
  received_records,    \* global received_records
  transfer_stats,      \* global transfer_stats
  transfer_complete,   \* nonlocal transfer_complete
  last_packet_time,    \* nonlocal last_packet_time
  start_time,          \* local start_time
  now,                 \* event-loop clock, seconds
  device_total,        \* local device_total
  start_index,         \* local start_index
  records_to_download, \* local records_to_download
  start_seq,           \* local start_seq
  result,              \* return value of download_data / main
  subscribed,          \* notification_handler is registered
  notifs,              \* notifications delivered in this run
  start_sent,          \* START commands written
  stop_sent,           \* STOP commands attempted
  loop_exit,           \* which break left the poll loop
  outcome,             \* which return/except path ended download_data
  insert_calls,        \* calls of db.insert_records in this run
  update_calls,        \* calls of db.update_sync_state in this run
  inserted,            \* return value of the last insert_records
  ignored,             \* INSERT OR IGNORE statements that hit a conflict
  insert_errors,       \* INSERT statements that raised (caught per record)
  disconnects,         \* client.disconnect() calls in this run
  last_frame,          \* "empty" after a zero-length frame, until the next poll
  failed_at            \* batch positions whose INSERT raised in the commit

vars == <<pc, session, records, sync_state, received_records, transfer_stats,
          transfer_complete, last_packet_time, start_time, now, device_total,
          start_index, records_to_download, start_seq, result, subscribed,
          notifs, start_sent, stop_sent, loop_exit, outcome, insert_calls,
          update_calls, inserted, ignored, insert_errors, disconnects,
          last_frame, failed_at>>

dbVars == <<records, sync_state>>

\* ---------------------------------------------------------------- helpers
Max(a, b) == IF a >= b THEN a ELSE b

None == [none |-> TRUE]

NoU16 == 0 - 1      \* parse_uint16_be's None (no u16 is negative)

Byte(data, i) ==
  CASE i = 0 -> data.b0
    [] i = 1 -> data.b1
    [] i = 2 -> data.b2
    [] i = 3 -> data.b3

Buffer(len, b0, b1, b2, b3) ==
  [len |-> len, b0 |-> b0, b1 |-> b1, b2 |-> b2, b3 |-> b3]

\* ---------------------------------------------------------- SensorDatabase
NoSyncRow == [present |-> FALSE, last_synced_seq |-> 0, total_synced |-> 0]

get_sync_state(row) ==
  IF row.present
    THEN [last_synced_seq |-> row.last_synced_seq,
          total_synced |-> row.total_synced]
    ELSE [last_synced_seq |-> 0 - 1, total_synced |-> 0]

\* Faulty variant: an existing row keeps its last_synced_seq.
update_sync_state_KeepsOld(row, last_synced_seq, imported_count) ==
  [present |-> TRUE,
   last_synced_seq |-> (IF row.present THEN row.last_synced_seq
                        ELSE last_synced_seq),
   total_synced |-> (IF row.present THEN row.total_synced ELSE 0)
                      + imported_count]

update_sync_state(row, last_synced_seq, imported_count) ==
  [present |-> TRUE,
   last_synced_seq |-> last_synced_seq,
   total_synced |-> (IF row.present THEN row.total_synced ELSE 0)
                      + imported_count]

HasSeq(rows, seq) == \E k \in DOMAIN rows : rows[k].seq = seq

\* Faulty variant: a plain INSERT into a table without the UNIQUE(mac, seq) index.
InsertOrIgnore_NoUnique(rows, seq, stamp) ==
  Append(rows, [seq |-> seq, imported_at |-> stamp])

\* One INSERT OR IGNORE statement: UNIQUE(mac, seq) makes it a no-op when a
\* row with that seq exists.
InsertOrIgnore(rows, seq, stamp) ==
  IF HasSeq(rows, seq)
    THEN rows
    ELSE Append(rows, [seq |-> seq, imported_at |-> stamp])

\* The loop of insert_records from batch position i on.  st carries the
\* table, the connection's total_changes, the inserted counter and the
\* number of ignored statements; fails is the set of batch positions whose
\* statement raises.
RECURSIVE InsertLoop(_, _, _, _, _)
InsertLoop(batch, i, fails, stamp, st) ==
  IF i > Len(batch) THEN st
  ELSE IF i \in fails
    THEN InsertLoop(batch, i + 1, fails, stamp,
                    [st EXCEPT !.errors = @ + 1])
  ELSE LET rows2 == InsertOrIgnore(st.rows, batch[i].seq, stamp)
           changed == Len(rows2) > Len(st.rows)
           tc == st.total_changes + (IF changed THEN 1 ELSE 0)
       IN InsertLoop(batch, i + 1, fails, stamp,
            [rows |-> rows2,
             total_changes |-> tc,
             inserted |-> st.inserted + (IF tc > 0 THEN 1 ELSE 0),
             ignored |-> st.ignored + (IF changed THEN 0 ELSE 1),
             errors |-> st.errors])

\* Faulty variant: one raising statement aborts the whole batch.
insert_records_AllOrNothing(rows, batch, fails, stamp) ==
  IF Len(batch) = 0 \/ fails \cap DOMAIN batch # {}
    THEN [rows |-> rows, total_changes |-> 0, inserted |-> 0, ignored |-> 0,
          errors |-> Cardinality(fails \cap DOMAIN batch)]
    ELSE InsertLoop(batch, 1, fails, stamp,
           [rows |-> rows, total_changes |-> 0, inserted |-> 0, ignored |-> 0,
            errors |-> 0])

insert_records(rows, batch, fails, stamp) ==
  IF Len(batch) = 0
    THEN [rows |-> rows, total_changes |-> 0, inserted |-> 0, ignored |-> 0,
          errors |-> 0]
    ELSE InsertLoop(batch, 1, fails, stamp,
           [rows |-> rows, total_changes |-> 0, inserted |-> 0, ignored |-> 0,
            errors |-> 0])

\* ------------------------------------------------------------------ codec
parse_uint16_be(data, offset) ==
  IF offset + 2 > data.len THEN NoU16
  ELSE Byte(data, offset) * 256 + Byte(data, offset + 1)

\* Faulty variant: a three-byte status reply is accepted.
parse_status_ThreeBytes(data) ==
  IF data.len < 3 THEN None
  ELSE [total |-> parse_uint16_be(data, 0),
        last_sent |-> parse_uint16_be(data, 2)]

parse_status(data) ==
  IF data.len < 4 THEN None
  ELSE [total |-> parse_uint16_be(data, 0),
        last_sent |-> parse_uint16_be(data, 2)]

\* Faulty variant: the bounds test accepts a record one byte short.
parse_sensor_record_OneShort(data, offset) ==
  IF offset + 5 > data.len THEN None ELSE [raw |-> TRUE]

parse_sensor_record(data, offset) ==
  IF offset + 6 > data.len THEN None ELSE [raw |-> TRUE]

\* Outcome of get_storage_status: st.char_ok is "the status characteristic
\* was found and is readable", st.read_ok is "read_gatt_char did not raise".
get_storage_status(st) ==
  IF ~st.char_ok THEN None
  ELSE IF ~st.read_ok THEN None
  ELSE parse_status(st.data)

\* The record loop of notification_handler's DATA branch, from index i on.
RECURSIVE ParseRecords(_, _, _, _, _, _)
ParseRecords(data, count, i, offset, seq0, acc) ==
  IF i >= count THEN acc
  ELSE IF parse_sensor_record(data, offset) = None THEN acc
  ELSE ParseRecords(data, count, i + 1, offset + 6, seq0,
                    Append(acc, [seq |-> seq0 + i]))

\* Faulty variant: resume at the last synced seq itself instead of the one after.
ResumePoint_NoIncrement(row, total) ==
  LET app_last_synced == Max(get_sync_state(row).last_synced_seq, 0 - 1)
      idx == app_last_synced
  IN [start_index |-> idx, records_to_download |-> total - idx]

\* download_data lines 386-390: the resume point from the persisted row and
\* the device-reported total.
ResumePoint(row, total) ==
  LET app_last_synced == Max(get_sync_state(row).last_synced_seq, 0 - 1)
      idx == app_last_synced + 1
  IN [start_index |-> idx, records_to_download |-> total - idx]

\* Faulty variant: only a negative remainder skips the session.
AlreadySynced_Strict(todo) == todo < 0

\* download_data line 391: nothing new to download.
AlreadySynced(todo) == todo <= 0

\* ----------------------------------------------------------------- inputs
\* Notification frames.  DATA frames take every length and record_count;
\* for the other packet types (3 stands for any unknown type) byte 3 is
\* never read and only lengths up to 4 differ in effect.
Frames ==
  {Buffer(len, PACKET_TYPE_DATA, 0, 30, b3) :
     len \in 0..MaxFrameLen, b3 \in 0..MaxCount}
  \cup {Buffer(len, b0, 0, 30, 0) :
          len \in 1..4, b0 \in {PACKET_TYPE_HEADER, PACKET_TYPE_END, 3}}

\* Status replies: too short (3 bytes) or whole, total in the low byte.
StatusData ==
  {Buffer(len, 0, b1, 0, 0) : len \in {3, 4}, b1 \in 0..MaxTotal}

\* What a status read meets: no readable characteristic, a read that
\* raises, or a reply.
StatusInputs ==
  {[char_ok |-> FALSE, read_ok |-> TRUE, data |-> Buffer(0, 0, 0, 0, 0)],
   [char_ok |-> TRUE, read_ok |-> FALSE, data |-> Buffer(0, 0, 0, 0, 0)]}
  \cup {[char_ok |-> TRUE, read_ok |-> TRUE, data |-> d] : d \in StatusData}

NewStats ==
  [header_received |-> FALSE, total_records |-> 0, data_packets |-> 0,
   end_received |-> FALSE, interval_sec |-> 0]

\* ------------------------------------------------------------------- Init
Init ==
  /\ pc = "idle"
  /\ session = 1
  /\ records = <<>>
  /\ sync_state = NoSyncRow
  /\ received_records = <<>>
  /\ transfer_stats = NewStats
  /\ transfer_complete = FALSE
  /\ last_packet_time = 0
  /\ start_time = 0
  /\ now = 0
  /\ device_total = 0
  /\ start_index = 0
  /\ records_to_download = 0
  /\ start_seq = 0
  /\ result = FALSE
  /\ subscribed = FALSE
  /\ notifs = 0
  /\ start_sent = 0
  /\ stop_sent = 0
  /\ loop_exit = "none"
  /\ outcome = "none"
  /\ insert_calls = 0
  /\ update_calls = 0
  /\ inserted = 0
  /\ ignored = 0
  /\ insert_errors = 0
  /\ disconnects = 0
  /\ last_frame = "none"
  /\ failed_at = {}

\* The poll loop is left: start_time and last_packet_time are never read
\* again (only the handler still writes last_packet_time), so the model
\* stops observing the clock and these dead values.
ClockDropped ==
  /\ now' = 0
  /\ start_time' = 0
  /\ last_packet_time' = 0

\* download_data returns v through the path named o.
Return(v, o) ==
  /\ pc' = "returned"
  /\ result' = v
  /\ outcome' = o

\* --------------------------------------------- download_data, lines 343-404
\* Reset of the globals, characteristic lookup, status read, resume point.
BeginSession(control_char, data_transfer_char, st) ==
  /\ pc = "idle"
  /\ UNCHANGED <<last_frame, failed_at>>
  /\ received_records' = <<>>
  /\ transfer_stats' = NewStats
  /\ UNCHANGED <<session, dbVars, start_time, now, subscribed, notifs,
                 start_sent, stop_sent, loop_exit, insert_calls, update_calls,
                 inserted, ignored, insert_errors, disconnects,
                 transfer_complete>>
  /\ IF ~control_char \/ ~data_transfer_char
       THEN /\ Return(FALSE, "no_chars")
            /\ UNCHANGED <<device_total, start_index, records_to_download,
                           start_seq, last_packet_time>>
     ELSE LET initial_status == get_storage_status(st) IN
       IF initial_status = None
         THEN /\ Return(FALSE, "no_status")
              /\ UNCHANGED <<device_total, start_index, records_to_download,
                             start_seq, last_packet_time>>
         ELSE LET total == initial_status.total
                  rp == ResumePoint(sync_state, total)
                  idx == rp.start_index
                  todo == rp.records_to_download
              IN /\ device_total' = total
                 /\ start_index' = idx
                 /\ records_to_download' = todo
                 /\ IF AlreadySynced(todo)
                      THEN /\ Return(TRUE, "skipped")
                           /\ UNCHANGED <<start_seq, last_packet_time>>
                      ELSE /\ pc' = "subscribe"
                           /\ last_packet_time' = now
                           /\ start_seq' = idx
                           /\ UNCHANGED <<result, outcome>>

\* ------------------------------------------- download_data, lines 454-457
\* await client.start_notify(...); a raise is caught by except Exception.
Subscribe(ok) ==
  /\ pc = "subscribe"
  /\ UNCHANGED <<last_frame, failed_at>>
  /\ IF ok
       THEN /\ pc' = "start"
            /\ subscribed' = TRUE
            /\ UNCHANGED <<result, outcome>>
       ELSE /\ Return(FALSE, "exception")
            /\ UNCHANGED subscribed
  /\ UNCHANGED <<session, dbVars, received_records, transfer_stats,
                 transfer_complete, last_packet_time, start_time, now,
                 device_total, start_index, records_to_download, start_seq,
                 notifs, start_sent, stop_sent, loop_exit, insert_calls,
                 update_calls, inserted, ignored, insert_errors, disconnects>>

\* ------------------------------------------- download_data, lines 459-469
\* The START write, then start_time and last_packet_time are taken.
StartTransfer(ok) ==
  /\ pc = "start"
  /\ UNCHANGED <<last_frame, failed_at>>
  /\ start_sent' = start_sent + 1
  /\ IF ok
       THEN /\ pc' = "polling"
            /\ start_time' = now
            /\ last_packet_time' = now
            /\ UNCHANGED <<result, outcome>>
       ELSE /\ Return(FALSE, "exception")
            /\ UNCHANGED <<start_time, last_packet_time>>
  /\ UNCHANGED <<session, dbVars, received_records, transfer_stats,
                 transfer_complete, now, device_total, start_index,
                 records_to_download, start_seq, subscribed, notifs,
                 stop_sent, loop_exit, insert_calls, update_calls, inserted,
                 ignored, insert_errors, disconnects>>

\* ------------------------------------- notification_handler, lines 406-452
\* The handler's guards: the empty-frame return and the shortest frame each
\* branch accepts.
\* Faulty variant: no frame counts as empty.
EmptyFrame_Never(data) == FALSE

EmptyFrame(data) == data.len = 0

HeaderLongEnough(data) == data.len >= 3

DataLongEnough(data) == data.len >= 5

\* Faulty variant: an END frame of one byte is accepted.
EndLongEnough_OneByte(data) == data.len >= 1

EndLongEnough(data) == data.len >= 2

HandleFrame(data) ==
  IF EmptyFrame(data)
    THEN UNCHANGED <<last_packet_time, transfer_stats, received_records,
                     transfer_complete>>
  ELSE
    /\ last_packet_time' = now
    /\ LET packet_type == Byte(data, 0) IN
       CASE packet_type = PACKET_TYPE_HEADER ->
              /\ transfer_stats' =
                   IF HeaderLongEnough(data)
                     THEN [transfer_stats EXCEPT
                             !.header_received = TRUE,
                             !.interval_sec = parse_uint16_be(data, 1)]
                     ELSE transfer_stats
              /\ UNCHANGED <<received_records, transfer_complete>>
         [] packet_type = PACKET_TYPE_DATA ->
              IF DataLongEnough(data)
                THEN LET count == Byte(data, 3) IN
                  /\ transfer_stats' =
                       [transfer_stats EXCEPT
                          !.data_packets = @ + 1,
                          !.total_records = @ + count]
                  /\ received_records' =
                       ParseRecords(data, count, 0, 5, start_seq,
                                    received_records)
                  /\ UNCHANGED transfer_complete
                ELSE UNCHANGED <<transfer_stats, received_records,
                                 transfer_complete>>
         [] packet_type = PACKET_TYPE_END ->
              IF EndLongEnough(data)
                THEN /\ transfer_stats' =
                          [transfer_stats EXCEPT !.end_received = TRUE]
                     /\ transfer_complete' = TRUE
                     /\ UNCHANGED received_records
                ELSE UNCHANGED <<transfer_stats, received_records,
                                 transfer_complete>>
         [] OTHER ->
              UNCHANGED <<transfer_stats, received_records,
                          transfer_complete>>

\* The transport delivers one frame to the registered handler.  The handler
\* is registered from start_notify until stop_notify returns.
notification_handler(data) ==
  /\ subscribed
  /\ pc \in {"start", "polling", "stop_notify"}
  /\ notifs < MaxFrames
  /\ notifs' = notifs + 1
  /\ last_frame' = IF data.len = 0 THEN "empty" ELSE "none"
  /\ HandleFrame(data)
  /\ UNCHANGED failed_at
  /\ UNCHANGED <<pc, session, dbVars, start_time, now, device_total,
                 start_index, records_to_download, start_seq, result,
                 subscribed, start_sent, stop_sent, loop_exit, outcome,
                 insert_calls, update_calls, inserted, ignored,
                 insert_errors, disconnects>>

\* ------------------------------------------- download_data, lines 470-486
\* One iteration of the poll loop: the sleep lets dt seconds pass, then the
\* three exit tests run in the code's order.  stop_ok is whether the STOP
\* write succeeds; the bare except makes both outcomes continue alike.
\* Faulty variant: the hard timeout fires one tick early.
HardTimeoutElapsed_Early(t) == (t - start_time) >= timeout

\* Faulty variant: the hard timeout fires one tick late.
HardTimeoutElapsed_Late(t) == (t - start_time) > timeout + 1

HardTimeoutElapsed(t) == (t - start_time) > timeout

PollLoop(dt, stop_ok) ==
  /\ pc = "polling"
  /\ last_frame' = "none"
  /\ UNCHANGED failed_at
  /\ LET t == now + dt IN
     IF transfer_complete
       THEN /\ pc' = "stop_notify"
            /\ loop_exit' = "end"
            /\ ClockDropped
            /\ UNCHANGED <<transfer_complete, stop_sent>>
     ELSE IF (t - last_packet_time) > idle_timeout
               /\ transfer_stats.data_packets > 0
       THEN /\ pc' = "stop_notify"
            /\ transfer_complete' = TRUE
            /\ loop_exit' = "idle"
            /\ ClockDropped
            /\ UNCHANGED stop_sent
     ELSE IF HardTimeoutElapsed(t)
       THEN /\ pc' = "stop_notify"
            /\ stop_sent' = stop_sent + 1
            /\ loop_exit' = "timeout"
            /\ ClockDropped
            /\ UNCHANGED transfer_complete
     ELSE /\ now' = t
          /\ UNCHANGED <<pc, loop_exit, transfer_complete, stop_sent,
                         last_packet_time, start_time>>
  /\ UNCHANGED <<session, dbVars, received_records, transfer_stats,
                 device_total, start_index, records_to_download, start_seq,
                 result, subscribed, notifs, start_sent, outcome,
                 insert_calls, update_calls, inserted, ignored, insert_errors,
                 disconnects>>

\* ------------------------------------------------ download_data, line 489
\* await client.stop_notify(...); a raise is caught by except Exception at
\* line 545 and download_data returns False.
StopNotify(ok) ==
  /\ pc = "stop_notify"
  /\ last_frame' = "none"
  /\ UNCHANGED failed_at
  /\ IF ok
       THEN /\ pc' = "final_status"
            /\ subscribed' = FALSE
            /\ UNCHANGED <<result, outcome, last_packet_time, start_time, now>>
       ELSE /\ Return(FALSE, "exception")
            /\ ClockDropped
            /\ UNCHANGED subscribed
  /\ UNCHANGED <<session, dbVars, received_records, transfer_stats,
                 transfer_complete, device_total, start_index,
                 records_to_download, start_seq, notifs, start_sent,
                 stop_sent, loop_exit, insert_calls, update_calls, inserted,
                 ignored, insert_errors, disconnects>>

\* download_data's return value at line 544.
\* Faulty variant: a session that reached the end always reports success.
Succeeded_Always(recs) == TRUE

Succeeded(recs) == Len(recs) > 0

\* ------------------------------------------- download_data, lines 496-544
\* The final status read (its result is only printed), then the commit and
\* the return value.  fails: batch positions whose INSERT raises.
Finish(st, fails) ==
  /\ pc = "final_status"
  /\ LET final_status == get_storage_status(st) IN
     IF Len(received_records) > 0
       THEN LET ins == insert_records(records, received_records, fails,
                                      session)
                last_record ==
                  CHOOSE r \in {received_records[k] :
                                  k \in DOMAIN received_records} :
                    \A k \in DOMAIN received_records :
                      received_records[k].seq <= r.seq
                new_last_synced == last_record.seq
            IN /\ records' = ins.rows
               /\ inserted' = ins.inserted
               /\ ignored' = ignored + ins.ignored
               /\ insert_errors' = insert_errors + ins.errors
               /\ failed_at' = fails
               /\ insert_calls' = insert_calls + 1
               /\ sync_state' = update_sync_state(sync_state, new_last_synced,
                                                  Len(received_records))
               /\ update_calls' = update_calls + 1
       ELSE UNCHANGED <<records, sync_state, inserted, ignored, insert_errors,
                        insert_calls, update_calls, failed_at>>
  /\ Return(Succeeded(received_records), "finished")
  /\ ClockDropped
  /\ UNCHANGED last_frame
  /\ UNCHANGED <<session, received_records, transfer_stats,
                 transfer_complete, device_total, start_index,
                 records_to_download, start_seq,
                 subscribed, notifs, start_sent, stop_sent, loop_exit,
                 disconnects>>

\* ---------------------------------------------------- main, lines 618-630
\* KeyboardInterrupt or task cancellation raised at an await of
\* download_data: neither is an Exception, so download_data's handlers do
\* not run; main's finally disconnects.
Cancel ==
  /\ pc \in {"subscribe", "start", "polling", "stop_notify", "final_status"}
  /\ last_frame' = "none"
  /\ UNCHANGED failed_at
  /\ pc' = "exited"
  /\ result' = FALSE
  /\ outcome' = "cancelled"
  /\ disconnects' = disconnects + 1
  /\ ClockDropped
  /\ UNCHANGED <<session, dbVars, received_records, transfer_stats,
                 transfer_complete, device_total, start_index,
                 records_to_download, start_seq, subscribed, notifs,
                 start_sent, stop_sent, loop_exit, insert_calls, update_calls,
                 inserted, ignored, insert_errors>>

\* main after download_data returned: the finally block disconnects.
MainExit ==
  /\ pc = "returned"
  /\ UNCHANGED <<last_frame, failed_at>>
  /\ pc' = "exited"
  /\ disconnects' = disconnects + 1
  /\ UNCHANGED <<session, dbVars, received_records, transfer_stats,
                 transfer_complete, last_packet_time, start_time, now,
                 device_total, start_index, records_to_download, start_seq,
                 result, subscribed, notifs, start_sent, stop_sent, loop_exit,
                 outcome, insert_calls, update_calls, inserted, ignored,
                 insert_errors>>

\* The script is run again: a new process with fresh globals, the same
\* database file.
NewRun ==
  /\ pc = "exited"
  /\ session < MaxSessions
  /\ pc' = "idle"
  /\ session' = session + 1
  /\ received_records' = <<>>
  /\ transfer_stats' = NewStats
  /\ transfer_complete' = FALSE
  /\ last_packet_time' = 0
  /\ start_time' = 0
  /\ now' = 0
  /\ device_total' = 0
  /\ start_index' = 0
  /\ records_to_download' = 0
  /\ start_seq' = 0
  /\ result' = FALSE
  /\ subscribed' = FALSE
  /\ notifs' = 0
  /\ start_sent' = 0
  /\ stop_sent' = 0
  /\ loop_exit' = "none"
  /\ outcome' = "none"
  /\ insert_calls' = 0
  /\ update_calls' = 0
  /\ inserted' = 0
  /\ ignored' = 0
  /\ insert_errors' = 0
  /\ disconnects' = 0
  /\ last_frame' = "none"
  /\ failed_at' = {}
  /\ UNCHANGED dbVars

Next ==
  \/ \E c \in BOOLEAN, d \in BOOLEAN, st \in StatusInputs :
       BeginSession(c, d, st)
  \/ \E ok \in BOOLEAN : Subscribe(ok)
  \/ \E ok \in BOOLEAN : StartTransfer(ok)
  \/ \E data \in Frames : notification_handler(data)
  \/ \E dt \in {0, 1}, stop_ok \in BOOLEAN : PollLoop(dt, stop_ok)
  \/ \E ok \in BOOLEAN : StopNotify(ok)
  \/ \E st \in StatusInputs, fails \in SUBSET (1..Len(received_records)) :
       Finish(st, fails)
  \/ Cancel
  \/ MainExit
  \/ NewRun

Spec == Init /\ [][Next]_vars

\* ------------------------------------------- the handler under any frames
\* A session up to the poll loop with any frames delivered to the handler:
\* the steps of Next that decode frames, without the loop and the commit.
NextHandler ==
  \/ \E c \in BOOLEAN, d \in BOOLEAN, st \in StatusInputs :
       BeginSession(c, d, st)
  \/ \E ok \in BOOLEAN : Subscribe(ok)
  \/ \E ok \in BOOLEAN : StartTransfer(ok)
  \/ \E data \in Frames : notification_handler(data)

SpecHandler == Init /\ [][NextHandler]_vars

\* ------------------------------------------------- one run's poll loop
\* One run of the script until the poll loop is left or the run is
\* cancelled.  Every iteration of the loop awaits asyncio.sleep(0.1), which
\* returns, so the clock goes on while the loop runs: a tick that lets time
\* pass is always taken eventually.
NextPoll ==
  \/ \E c \in BOOLEAN, d \in BOOLEAN, st \in StatusInputs :
       BeginSession(c, d, st)
  \/ \E ok \in BOOLEAN : Subscribe(ok)
  \/ \E ok \in BOOLEAN : StartTransfer(ok)
  \/ \E data \in Frames : notification_handler(data)
  \/ \E dt \in {0, 1}, stop_ok \in BOOLEAN : PollLoop(dt, stop_ok)
  \/ Cancel

PollTick == \E stop_ok \in BOOLEAN : PollLoop(1, stop_ok)

SpecPoll == Init /\ [][NextPoll]_vars /\ WF_vars(PollTick)

\* ------------------------------------------------ the database on its own
\* SensorDatabase is a public class: the two writers called directly, with
\* any batch and any arguments, on the database the calls before left.
Batches ==
  UNION {[1..n -> [seq : 0..MaxSeqArg]] : n \in 1..MaxBatch}

DbInsertRecords(batch, fails) ==
  /\ insert_calls + update_calls < MaxDbCalls
  /\ UNCHANGED <<last_frame, failed_at>>
  /\ LET ins == insert_records(records, batch, fails, insert_calls + 1) IN
       /\ records' = ins.rows
       /\ inserted' = ins.inserted
       /\ ignored' = ignored + ins.ignored
       /\ insert_errors' = insert_errors + ins.errors
  /\ insert_calls' = insert_calls + 1
  /\ UNCHANGED <<pc, session, sync_state, received_records, transfer_stats,
                 transfer_complete, last_packet_time, start_time, now,
                 device_total, start_index, records_to_download, start_seq,
                 result, subscribed, notifs, start_sent, stop_sent, loop_exit,
                 outcome, update_calls, disconnects>>

DbUpdateSyncState(last_synced_seq, imported_count) ==
  /\ insert_calls + update_calls < MaxDbCalls
  /\ UNCHANGED <<last_frame, failed_at>>
  /\ sync_state' = update_sync_state(sync_state, last_synced_seq,
                                     imported_count)
  /\ update_calls' = update_calls + 1
  /\ UNCHANGED <<pc, session, records, received_records, transfer_stats,
                 transfer_complete, last_packet_time, start_time, now,
                 device_total, start_index, records_to_download, start_seq,
                 result, subscribed, notifs, start_sent, stop_sent, loop_exit,
                 outcome, insert_calls, inserted, ignored, insert_errors,
                 disconnects>>

NextDb ==
  \/ \E batch \in Batches, fails \in SUBSET (1..MaxBatch) :
       /\ fails \subseteq DOMAIN batch
       /\ DbInsertRecords(batch, fails)
  \/ \E seq \in 0..MaxSeqArg, n \in 1..MaxBatch : DbUpdateSyncState(seq, n)

SpecDb == Init /\ [][NextDb]_vars

\* ----------------------------------------------------------------- claims
LastSynced(row) == IF row.present THEN row.last_synced_seq ELSE 0 - 1

Ended == pc \in {"returned", "exited"}

SeqsOf(rows) == {rows[k].seq : k \in DOMAIN rows}

\* C1: within one session the k-th decoded record (k from 0, across all DATA
\* frames, in arrival order) has seq = start_seq + k, so the seqs of the
\* session's records are strictly increasing and pairwise distinct.
C1_RunningIndex ==
  \A k \in DOMAIN received_records :
    received_records[k].seq = start_seq + (k - 1)

\* C2: update_sync_state never decreases the persisted last_synced_seq
\* (-1 when the device has no row), whatever argument it is called with.
C2_CommitMonotonic ==
  [][LastSynced(sync_state') >= LastSynced(sync_state)]_vars

\* C3: the step that computes the resume point from a persisted
\* last_synced_seq S (S = -1 without a row) and a device total T sets
\* start_index = S + 1 and to_download = T - S - 1 and leaves both tables
\* as they were.
C3_ResumePoint ==
  [][(pc = "idle" /\ pc' # "idle" /\ outcome' \notin {"no_chars", "no_status"})
       => /\ start_index' = LastSynced(sync_state) + 1
          /\ records_to_download' =
               device_total' - LastSynced(sync_state) - 1
          /\ records' = records
          /\ sync_state' = sync_state]_vars

C3_Witness ==
  /\ pc = "subscribe"
  /\ sync_state.present
  /\ sync_state.last_synced_seq >= 0
  /\ start_index = sync_state.last_synced_seq + 1
  /\ device_total = MaxTotal

\* C4: when to_download <= 0 at session start the session is skipped: the
\* step returns success at once, nothing is subscribed, no START is sent,
\* no insert and no sync-state update is made, up to the end of the run.
C4_SkipWhenSynced ==
  /\ [][(pc = "idle" /\ pc' # "idle"
           /\ outcome' \notin {"no_chars", "no_status"}
           /\ device_total' - (LastSynced(sync_state) + 1) <= 0)
          => /\ pc' = "returned"
             /\ result' = TRUE
             /\ records' = records
             /\ sync_state' = sync_state]_vars
  /\ [](outcome = "skipped"
          => /\ Ended
             /\ result = TRUE
             /\ ~subscribed
             /\ start_sent = 0
             /\ insert_calls = 0
             /\ update_calls = 0)
  /\ [][outcome = "skipped" /\ outcome' = "skipped"
          => records' = records /\ sync_state' = sync_state]_vars

C4_Witness ==
  /\ pc = "exited"
  /\ outcome = "skipped"
  /\ sync_state.present
  /\ device_total > 0
  /\ records_to_download <= 0

\* C5: the records table never holds two rows with the same seq (of the one
\* device), after any sequence of inserts.
C5_UniqueSeq ==
  \A i \in DOMAIN records : \A j \in DOMAIN records :
    i # j => records[i].seq # records[j].seq

\* One seq inserted at least three times over two calls, and no INSERT
\* raised: a duplicate inside a batch and a duplicate across calls.
C5_Witness ==
  /\ insert_calls = 2
  /\ insert_errors = 0
  /\ ignored >= 2
  /\ Len(records) = 1

\* C6: when a started session has left the poll loop (END, idle window or
\* hard timeout) and ended: with at least one decoded record the insert and
\* the sync-state update were each made exactly once, the update carrying
\* the highest seq seen and the record count; with no decoded record
\* neither was made.
C6_CommitOnce ==
  (Ended /\ loop_exit # "none" /\ outcome # "cancelled")
    => IF Len(received_records) > 0
         THEN /\ insert_calls = 1
              /\ update_calls = 1
              /\ sync_state.present
              /\ \A k \in DOMAIN received_records :
                   received_records[k].seq <= sync_state.last_synced_seq
              /\ sync_state.last_synced_seq \in SeqsOf(received_records)
         ELSE insert_calls = 0 /\ update_calls = 0

\* C7: n >= 1 records received, in any split over DATA frames, then the
\* idle window elapses with no END: the session ends Complete with no STOP
\* sent and the store holds one record of this session for each seq
\* start_seq .. start_seq + n - 1.
C7_IdleCompleteCommitsAll ==
  (Ended /\ loop_exit = "idle" /\ outcome = "finished"
     /\ insert_errors = 0 /\ Len(received_records) >= 1)
    => /\ stop_sent = 0
       /\ transfer_complete
       /\ \A k \in 0..(Len(received_records) - 1) :
            \E i \in DOMAIN records :
              /\ records[i].seq = start_seq + k
              /\ records[i].imported_at = session

\* C8: a session cancelled after records were decoded and before the commit
\* has attempted a disconnect and has passed the decoded records to the
\* store.
C8_CancelPersists ==
  (outcome = "cancelled" /\ Len(received_records) > 0)
    => disconnects >= 1 /\ insert_calls >= 1

\* C9: a failure of a step after the poll loop (unsubscribe, final status
\* read) does not lose decoded records: they are passed to the store.
C9_LateFailureKeepsRecords ==
  (Ended /\ loop_exit # "none" /\ outcome # "cancelled"
     /\ Len(received_records) > 0)
    => insert_calls >= 1

C11_Converges ==
  (Ended /\ outcome \in {"finished", "exception"} /\ loop_exit = "end"
     /\ transfer_stats.end_received /\ insert_errors = 0
     /\ records_to_download > 0
     /\ Len(received_records) = records_to_download)
    => /\ LastSynced(sync_state) = device_total - 1
       /\ \A q \in start_index..(device_total - 1) :
            Cardinality({i \in DOMAIN records : records[i].seq = q}) = 1
       /\ AlreadySynced(
            ResumePoint(sync_state, device_total).records_to_download)

\* C12: the count insert_records returns is the number of records the call
\* added to the table; a duplicate that was ignored is not counted,
\* wherever it stands in the batch.
C12_InsertedCount ==
  [][(insert_calls' = insert_calls + 1)
       => inserted' = Len(records') - Len(records)]_vars

\* C13: the poll loop completes by the idle window only when at least one
\* record has been decoded; frames that add no record do not let the idle
\* window complete the session.
C13_IdleNeedsRecord ==
  [][(pc = "polling" /\ loop_exit' = "idle")
       => Len(received_records) >= 1]_vars

C15_SessionEnds ==
  /\ [](pc = "polling" => now - start_time <= timeout)
  /\ (pc = "polling") ~> (loop_exit # "none" \/ outcome = "cancelled")

\* The loop ran to the hard timeout under a stream that never completed it:
\* every frame of the bound arrived and none was a DATA frame or an END.
C15_Witness ==
  /\ pc = "stop_notify"
  /\ loop_exit = "timeout"
  /\ notifs = MaxFrames
  /\ transfer_stats.data_packets = 0
  /\ ~transfer_stats.end_received
  /\ received_records = <<>>

\* C16: a frame of unknown packet type, or a HEADER, DATA or END frame
\* shorter than 3, 5 or 2 bytes, leaves the decoded records, the header and
\* end flags and the packet and record counters as they were, and neither
\* completes nor ends the session; the handler stays registered for the
\* frames that follow.
C16_MalformedDropped ==
  [][(notifs' = notifs + 1)
       => \A data \in {f \in Frames :
                         /\ f.len > 0
                         /\ \/ f.b0 \notin {0, 1, 2}
                            \/ f.b0 = 0 /\ f.len < 3
                            \/ f.b0 = 1 /\ f.len < 5
                            \/ f.b0 = 2 /\ f.len < 2} :
            notification_handler(data)
              => /\ received_records' = received_records
                 /\ transfer_stats' = transfer_stats
                 /\ transfer_complete' = transfer_complete
                 /\ pc' = pc
                 /\ result' = result
                 /\ outcome' = outcome
                 /\ loop_exit' = loop_exit
                 /\ subscribed' = subscribed]_vars

\* The only frame so far arrived after the clock had advanced and left no
\* trace but the time of the last packet: it was a dropped frame.
C16_Witness ==
  /\ pc = "polling"
  /\ notifs = 1
  /\ last_frame = "none"
  /\ last_packet_time > start_time
  /\ transfer_stats = NewStats
  /\ received_records = <<>>
  /\ ~transfer_complete

\* C17: a zero-length frame changes nothing: not the records, the flags or
\* the counters, and not the time of the last packet, so it does not
\* postpone the idle window.
C17_EmptyFrameNoOp ==
  [][(notifs' = notifs + 1)
       => \A data \in {f \in Frames : f.len = 0} :
            notification_handler(data)
              => /\ last_packet_time' = last_packet_time
                 /\ received_records' = received_records
                 /\ transfer_stats' = transfer_stats
                 /\ transfer_complete' = transfer_complete
                 /\ pc' = pc
                 /\ result' = result
                 /\ outcome' = outcome
                 /\ loop_exit' = loop_exit
                 /\ subscribed' = subscribed]_vars

\* A zero-length frame was handled two seconds or more after the last
\* packet of a session that had decoded a record.
C17_Witness ==
  /\ pc = "polling"
  /\ last_frame = "empty"
  /\ transfer_stats.data_packets >= 1
  /\ Len(received_records) >= 1
  /\ now - last_packet_time >= 2

\* C18: when a required characteristic is missing, or the status cannot be
\* read or is shorter than 4 bytes, download_data returns False before any
\* transfer: no subscription, no START, no write to records or sync_state.
C18_FailsBeforeTransfer ==
  [][(pc = "idle" /\ pc' # "idle")
       => \A c \in BOOLEAN, d \in BOOLEAN, st \in StatusInputs :
            (/\ BeginSession(c, d, st)
             /\ \/ ~c
                \/ ~d
                \/ ~st.char_ok
                \/ ~st.read_ok
                \/ st.data.len < 4)
              => /\ pc' = "returned"
                 /\ result' = FALSE
                 /\ ~subscribed'
                 /\ start_sent' = 0
                 /\ insert_calls' = 0
                 /\ update_calls' = 0
                 /\ UNCHANGED dbVars]_vars

\* A second run failed on its status read: the first run's rows and sync
\* state are still there and nothing was subscribed or started.
C18_Witness ==
  /\ session = 2
  /\ outcome = "no_status"
  /\ result = FALSE
  /\ Len(records) >= 1
  /\ sync_state.present
  /\ start_sent = 0

\* C19: when the INSERT of some records of the committed batch raises, every
\* other record of the batch is in the table after the commit, whatever the
\* positions of the failing ones.
C19_WriteErrorSkipped ==
  (outcome = "finished" /\ insert_calls = 1)
    => /\ insert_errors = Cardinality(failed_at)
       /\ \A i \in DOMAIN received_records \ failed_at :
            HasSeq(records, received_records[i].seq)

\* The first record of a two-record batch failed and the second is stored.
C19_Witness ==
  /\ outcome = "finished"
  /\ Len(received_records) = 2
  /\ failed_at = {1}
  /\ insert_errors = 1
  /\ HasSeq(records, received_records[2].seq)

\* C20: when a session has computed its start_index, every seq below
\* start_index has a stored record and no stored record has a seq at or
\* above start_index.
C20_ResumeIsFirstUnstored ==
  ((pc \in {"subscribe", "start", "polling", "stop_notify", "final_status"}
      \/ outcome = "skipped")
     /\ insert_calls = 0)
    => /\ \A q \in 0..(start_index - 1) : HasSeq(records, q)
       /\ \A i \in DOMAIN records : records[i].seq < start_index

\* C21: once an END frame has been handled, a frame delivered afterwards
\* (the handler is still registered) adds no record to the session, so it
\* does not change what is committed.
C21_CompleteIsTerminal ==
  [][(transfer_stats.end_received /\ notifs' = notifs + 1)
       => received_records' = received_records]_vars

\* C22: a session of download_data that commits leaves last_synced_seq at
\* or above its start_index, which is one more than the value it read at
\* its start, so strictly above that value; and no step of any session
\* lowers the persisted last_synced_seq.
C22_SessionsAdvance ==
  [][/\ (update_calls' = update_calls + 1)
          => /\ start_index = LastSynced(sync_state) + 1
             /\ LastSynced(sync_state') >= start_index
             /\ LastSynced(sync_state') > LastSynced(sync_state)
     /\ LastSynced(sync_state') >= LastSynced(sync_state)]_vars

\* The second session committed on top of the first one's sync state.
C22_Witness ==
  /\ session = 2
  /\ outcome = "finished"
  /\ update_calls = 1
  /\ sync_state.total_synced >= 2
  /\ sync_state.last_synced_seq >= 1

\* C23: a session that sent START and reached its end with no exception
\* returns True exactly when at least one record was decoded, whichever way
\* the poll loop was left.
C23_SuccessIffRecords ==
  (outcome = "finished")
    => /\ start_sent = 1
       /\ loop_exit \in {"end", "idle", "timeout"}
       /\ result = (Len(received_records) > 0)

\* A session left by the hard timeout with a record reported success.
C23_Witness ==
  /\ outcome = "finished"
  /\ loop_exit = "timeout"
  /\ stop_sent = 1
  /\ Len(received_records) >= 1
  /\ result = TRUE

====
